---------------------------- MODULE Spec2Model ----------------------------
(***************************************************************************)
(* A model of blend2d-rs' Array<T> (src/src/array.rs) and of the codec     *)
(* lookup built on it.  An Array<T> is a handle (BLArrayCore) onto a       *)
(* reference-counted backing allocation ("impl") owned by the blend2d      *)
(* engine.  The handle, the routing of push / insert / replace to the      *)
(* engine primitives and the wrappers around the engine calls are taken    *)
(* from the Rust source; the engine primitives themselves (the ffi calls) *)
(* are not part of the source files and follow the specification.          *)
(***************************************************************************)
EXTENDS Integers, Sequences, FiniteSets, TLC

(***************************************************************************)
(* Bounds of the model.                                                    *)
(***************************************************************************)
MaxLen == 3      \* no array grows beyond this many elements
MaxScore == 2    \* inspect_data scores range over 0..MaxScore
MaxFrames == 2   \* no decoder or encoder goes beyond this frame index
MaxBuffer == 2   \* nor beyond this buffer offset
MaxText == 2     \* no text is longer than this many characters

(***************************************************************************)
(* Element types T with an ArrayType implementation.                       *)
(***************************************************************************)
SignedTypes == {"i8", "i16", "i32", "i64", "isize"}
UnsignedTypes == {"u8", "u16", "u32", "u64", "usize"}
FloatTypes == {"f32", "f64"}
PointerTypes == {"ptr_const", "ptr_mut"}
\* one type of each row of the struct invocation of impl_array_type!
StructTypes == {"Tag", "PointI", "Circle", "BoxI", "Arc"}
\* T: WrappedBlCore, the nested handles
HandleTypes == {"Image", "ImageCodec"}
ScalarTypes == SignedTypes \cup UnsignedTypes \cup FloatTypes
Types == ScalarTypes \cup PointerTypes \cup StructTypes \cup HandleTypes

\* #[cfg(target_pointer_width = "64")]
PointerWidth == 64

(***************************************************************************)
(* ImplType as named by the impl_array_type! invocations: the shape tag.   *)
(***************************************************************************)
IMPL_IDX(T) ==
  CASE T = "i8" -> "ArrayI8"   [] T = "u8" -> "ArrayU8"
    [] T = "i16" -> "ArrayI16" [] T = "u16" -> "ArrayU16"
    [] T = "i32" -> "ArrayI32" [] T = "u32" -> "ArrayU32"
    [] T = "i64" -> "ArrayI64" [] T = "u64" -> "ArrayU64"
    [] T = "f32" -> "ArrayF32" [] T = "f64" -> "ArrayF32"
    [] T = "isize" -> (IF PointerWidth = 32 THEN "ArrayI32" ELSE "ArrayI64")
    [] T = "usize" -> (IF PointerWidth = 32 THEN "ArrayU32" ELSE "ArrayU64")
    [] T \in PointerTypes -> (IF PointerWidth = 32 THEN "ArrayU32" ELSE "ArrayU64")
    [] T = "Tag" -> "ArrayStruct4"
    [] T = "PointI" -> "ArrayStruct8"
    [] T = "Circle" -> "ArrayStruct12"
    [] T = "BoxI" -> "ArrayStruct16"
    [] T = "Arc" -> "ArrayStruct24"
    [] T \in HandleTypes -> "ArrayVar"

\* bytes of one element of the struct shapes, by tag
StructSize(tag) ==
  CASE tag = "ArrayStruct4" -> 4
    [] tag = "ArrayStruct8" -> 8
    [] tag = "ArrayStruct12" -> 12
    [] tag = "ArrayStruct16" -> 16
    [] tag = "ArrayStruct24" -> 24

\* size_of::<T>() in bytes
SizeOf(T) ==
  CASE T \in {"i8", "u8"} -> 1
    [] T \in {"i16", "u16"} -> 2
    [] T \in {"i32", "u32", "f32"} -> 4
    [] T \in {"i64", "u64", "f64"} -> 8
    [] T \in {"isize", "usize"} \cup PointerTypes -> PointerWidth \div 8
    [] T \in StructTypes -> StructSize(IMPL_IDX(T))
    [] T \in HandleTypes -> PointerWidth \div 8

(***************************************************************************)
(* Values of T the model draws its inputs from, and their memory images.   *)
(* An integer is stored little-endian in two's complement; a float by its  *)
(* IEEE-754 bits; a struct is its own memory image; a nested handle is the *)
(* name of the allocation it is bound to.                                  *)
(***************************************************************************)
ElemImpls == {"E1", "E2"}

Items(T) ==
  CASE T \in SignedTypes -> {-1, 32}
    [] T \in UnsignedTypes \cup PointerTypes -> {8, 32}
    [] T \in FloatTypes -> {"1.5", "-2.0"}
    [] T \in StructTypes -> {[i \in 1..SizeOf(T) |-> k] : k \in {1, 2}}
    [] T \in HandleTypes -> ElemImpls

RECURSIVE LeBytes(_, _)
\* the low n bytes of v in two's complement, least significant first
LeBytes(v, n) == IF n = 0 THEN <<>> ELSE <<v % 256>> \o LeBytes(v \div 256, n - 1)

RECURSIVE FromLeBytes(_, _)
\* the integer a little-endian byte string holds
FromLeBytes(b, signed) ==
  IF Len(b) = 1
    THEN (IF signed /\ b[1] >= 128 THEN b[1] - 256 ELSE b[1])
    ELSE b[1] + 256 * FromLeBytes(Tail(b), signed)

FloatBits(f, n) ==
  CASE f = "0.0" -> [i \in 1..n |-> 0]
    [] f = "1.5" /\ n = 4 -> <<0, 0, 192, 63>>
    [] f = "-2.0" /\ n = 4 -> <<0, 0, 0, 192>>
    [] f = "1.5" /\ n = 8 -> <<0, 0, 0, 0, 0, 0, 248, 63>>
    [] f = "-2.0" /\ n = 8 -> <<0, 0, 0, 0, 0, 0, 0, 192>>
    [] OTHER -> <<>>

FloatOfBits(b) ==
  IF \E f \in {"0.0", "1.5", "-2.0"} : FloatBits(f, Len(b)) = b
    THEN CHOOSE f \in {"0.0", "1.5", "-2.0"} : FloatBits(f, Len(b)) = b
    ELSE "NaN"


(***************************************************************************)
(* The state.                                                              *)
(*   ty     the element type T of the arrays of this run                   *)
(*   hs     each handle's core.impl_: Dead (no such value), 0 (the none    *)
(*          sentinel of the shape) or the id of a backing allocation       *)
(*   heap   the backing allocations: reference count, capacity, cells      *)
(*   elems  the reference counts of the allocations nested handles name    *)
(*   last   the call under observation: its name, its handle, what it      *)
(*          returned, and whether it left the handle bound to another      *)
(*          allocation (a decoder or encoder: with other impl fields).  A run is any sequence of calls; the model         *)
(*          observes one call of it, the last one, and NoCall stands for   *)
(*          no call observed yet                                           *)
(*   found  the last find_codec_by_data: the score inspect_data gave each   *)
(*          codec of the list, and the position of the codec returned      *)
(*          (0 for None)                                                   *)
(*   features  the feature bits of each codec that decide what it creates   *)
(*   coder  the decoder or encoder of the run: what it is, the codec it    *)
(*          was created from, and the fields of its impl                   *)
(*   glyphs the glyph buffer of the run: whether it exists, the flag bits   *)
(*          the engine keeps for it, and the items it holds                 *)
(***************************************************************************)
VARIABLES ty, hs, heap, elems, last, found, features, coder, glyphs
vars == <<ty, hs, heap, elems, last, found, features, coder, glyphs>>

Handles == {"a", "b"}
\* one allocation a handle, and one more while a call replaces one
MaxImpls == Cardinality(Handles) + 1
ImplIds == 1..MaxImpls
Free == [rc |-> 0, cap |-> 0, data |-> <<>>]
\* the shared none sentinel of a shape: empty, no capacity, never written
NoneImpl == [rc |-> 0, cap |-> 0, data |-> <<>>]
\* a nested-handle slot that names no allocation
Null == "null"
\* a *const pointer argument: null, or onto the caller's items
NullPtr == [null |-> TRUE, items |-> <<>>]
Ptr(items) == [null |-> FALSE, items |-> items]
\* what hs holds for a handle that does not exist (not constructed, or dropped)
Dead == 0 - 1

Max(x, y) == IF x >= y THEN x ELSE y
Min(x, y) == IF x <= y THEN x ELSE y

ImplOf(w, id) == IF id = 0 THEN NoneImpl ELSE w.heap[id]
IsVar == IMPL_IDX(ty) = "ArrayVar"
\* an allocation may be written in place when exactly one handle is bound to it
IsMutable(w, id) == id # 0 /\ w.heap[id].rc = 1
Fresh(w) == CHOOSE f \in ImplIds :
              /\ w.heap[f] = Free
              /\ \A g \in ImplIds : w.heap[g] = Free => f <= g

Count(cells, e) == Cardinality({i \in DOMAIN cells : cells[i] = e})
\* the per-element hook of the nested-handle shape: one reference per slot
Retain(el, cells) ==
  IF IsVar THEN [e \in ElemImpls |-> el[e] + Count(cells, e)] ELSE el
Release(el, cells) ==
  IF IsVar THEN [e \in ElemImpls |-> el[e] - Count(cells, e)] ELSE el

Ok(w, id) == [w |-> w, id |-> id, code |-> "Ok"]
Fail(w, id, code) == [w |-> w, id |-> id, code |-> code]

\* release(handle): one reference less, the allocation freed at zero
ImplRelease(w, id) ==
  IF id = 0 THEN w
  ELSE IF w.heap[id].rc > 1
    THEN [w EXCEPT !.heap[id].rc = @ - 1]
    ELSE [heap |-> [w.heap EXCEPT ![id] = Free],
          elems |-> Release(w.elems, w.heap[id].data)]

\* a fresh exclusive allocation holding `cells`, the handle rebound to it and
\* its old reference released
ImplRealloc(w, id, cells, cap) ==
  LET f == Fresh(w)
      w1 == [heap |-> [w.heap EXCEPT ![f] = [rc |-> 1, cap |-> cap, data |-> cells]],
             elems |-> Retain(w.elems, cells)]
  IN  Ok(ImplRelease(w1, id), f)

\* the cells of the handle's array become `cells`: in place when the
\* allocation is exclusive and large enough, through a fresh one otherwise
ImplStore(w, id, cells, oom) ==
  IF IsMutable(w, id) /\ Len(cells) <= w.heap[id].cap
    THEN Ok([heap |-> [w.heap EXCEPT ![id].data = cells],
             elems |-> Release(Retain(w.elems, cells), w.heap[id].data)], id)
  ELSE IF oom THEN Fail(w, id, "OutOfMemory")
  ELSE ImplRealloc(w, id, cells, Max(Len(cells), ImplOf(w, id).cap))

(***************************************************************************)
(* The engine's array calls, on a world w = [heap, elems] and the id the   *)
(* handle holds.  Each returns the new world, the id the handle holds      *)
(* afterwards and a result code.  `oom` says whether an allocation the     *)
(* call needs fails; a failed call leaves world and handle as they were.   *)
(***************************************************************************)
\* bytes of one slot of an allocation of the given shape tag
ItemSize(tag) ==
  CASE tag \in {"ArrayI8", "ArrayU8"} -> 1
    [] tag \in {"ArrayI16", "ArrayU16"} -> 2
    [] tag \in {"ArrayI32", "ArrayU32", "ArrayF32"} -> 4
    [] tag \in {"ArrayI64", "ArrayU64", "ArrayF64"} -> 8
    [] tag = "ArrayVar" -> PointerWidth \div 8
    [] OTHER -> StructSize(tag)

ZeroCell == IF IsVar THEN Null ELSE [i \in 1..ItemSize(IMPL_IDX(ty)) |-> 0]

blArrayGetSize(w, id) == Len(ImplOf(w, id).data)
blArrayGetData(w, id) == ImplOf(w, id).data
\* the same allocation, or as many cells with the same memory image each
blArrayEquals(w, a, b) ==
  LET x == ImplOf(w, a).data
      y == ImplOf(w, b).data
  IN  a = b \/ (Len(x) = Len(y) /\ \A i \in 1..Len(x) : x[i] = y[i])

blArrayReserve(w, id, n, oom) ==
  IF n <= ImplOf(w, id).cap THEN Ok(w, id)
  ELSE IF oom THEN Fail(w, id, "OutOfMemory")
  ELSE ImplRealloc(w, id, ImplOf(w, id).data, n)

blArrayShrink(w, id, oom) ==
  LET im == ImplOf(w, id) IN
  IF id = 0 \/ im.cap = Len(im.data) THEN Ok(w, id)
  ELSE IF Len(im.data) = 0 THEN Ok(ImplRelease(w, id), 0)
  ELSE IF oom THEN Fail(w, id, "OutOfMemory")
  ELSE ImplRealloc(w, id, im.data, Len(im.data))

blArrayClear(w, id) ==
  IF blArrayGetSize(w, id) = 0 THEN Ok(w, id)
  ELSE IF IsMutable(w, id) THEN ImplStore(w, id, <<>>, FALSE)
  ELSE Ok(ImplRelease(w, id), 0)

\* fill: a null pointer, or one onto the items to append
blArrayResize(w, id, n, fill, oom) ==
  LET data == blArrayGetData(w, id)
      size == Len(data)
      added == [k \in 1..(n - size) |->
                  IF fill.null THEN ZeroCell ELSE fill.items[k]]
  IN  IF n = size THEN Ok(w, id)
      ELSE IF n < size THEN ImplStore(w, id, SubSeq(data, 1, n), FALSE)
      ELSE ImplStore(w, id, data \o added, oom)

blArrayRemoveRange(w, id, rStart, rEnd) ==
  LET data == blArrayGetData(w, id) IN
  IF rStart > rEnd \/ rEnd > Len(data) THEN Fail(w, id, "InvalidValue")
  ELSE IF rStart = rEnd THEN Ok(w, id)
  ELSE ImplStore(w, id, SubSeq(data, 1, rStart) \o SubSeq(data, rEnd + 1, Len(data)),
                 FALSE)

blArrayRemoveIndex(w, id, index) ==
  IF index >= blArrayGetSize(w, id) THEN Fail(w, id, "InvalidValue")
  ELSE blArrayRemoveRange(w, id, index, index + 1)

blArrayMakeMutable(w, id, oom) ==
  IF IsMutable(w, id) THEN Ok(w, id)
  ELSE IF oom THEN Fail(w, id, "OutOfMemory")
  ELSE ImplRealloc(w, id, ImplOf(w, id).data, ImplOf(w, id).cap)

blArrayReplaceView(w, id, rStart, rEnd, cells, oom) ==
  LET data == blArrayGetData(w, id) IN
  IF rStart > rEnd \/ rEnd > Len(data) THEN Fail(w, id, "InvalidValue")
  ELSE IF rStart = rEnd /\ Len(cells) = 0 THEN Ok(w, id)
  ELSE ImplStore(w, id,
         SubSeq(data, 1, rStart) \o cells \o SubSeq(data, rEnd + 1, Len(data)), oom)

blArrayInsertView(w, id, index, cells, oom) ==
  blArrayReplaceView(w, id, index, index, cells, oom)

blArrayAppendView(w, id, cells, oom) ==
  blArrayInsertView(w, id, blArrayGetSize(w, id), cells, oom)

blArrayAppendItem(w, id, cell, oom) == blArrayAppendView(w, id, <<cell>>, oom)

blArrayInsertItem(w, id, index, cell, oom) ==
  blArrayInsertView(w, id, index, <<cell>>, oom)

blArrayReplaceItem(w, id, index, cell, oom) ==
  IF index >= blArrayGetSize(w, id) THEN Fail(w, id, "InvalidValue")
  ELSE blArrayReplaceView(w, id, index, index + 1, <<cell>>, oom)

(***************************************************************************)
(* The typed primitives blArray{Append,Insert}{U8,U16,U32,U64,F32,F64}     *)
(* and the three untyped ones, by name.                                    *)
(***************************************************************************)
Suffixes == {"U8", "U16", "U32", "U64", "F32", "F64", "Item"}
PrimName(op, suffix) == [op |-> op, suffix |-> suffix]

\* bytes of the value a primitive takes
PrimWidth(prim) ==
  CASE prim.suffix = "U8" -> 1
    [] prim.suffix = "U16" -> 2
    [] prim.suffix \in {"U32", "F32"} -> 4
    [] prim.suffix \in {"U64", "F64"} -> 8
    [] prim.suffix = "Item" -> ItemSize(IMPL_IDX(ty))

\* the call of primitive `prim`: index is ignored by the append primitives
FfiItemCall(prim, w, id, index, cell, oom) ==
  CASE prim.op = "Append" -> blArrayAppendItem(w, id, cell, oom)
    [] prim.op = "Insert" -> blArrayInsertItem(w, id, index, cell, oom)
    [] prim.op = "Replace" -> blArrayReplaceItem(w, id, index, cell, oom)

(***************************************************************************)
(* The Rust side: memory images, casts and the routing of ArrayType.       *)
(***************************************************************************)
\* the bytes of a value of T as it lies in memory
MemImage(T, v) ==
  CASE T \in SignedTypes \cup UnsignedTypes \cup PointerTypes -> LeBytes(v, SizeOf(T))
    [] T \in FloatTypes -> FloatBits(v, SizeOf(T))
    [] OTHER -> v

\* the value of T a slot is read as through the slice
Decode(T, cell) ==
  CASE T \in SignedTypes -> FromLeBytes(cell, TRUE)
    [] T \in UnsignedTypes \cup PointerTypes -> FromLeBytes(cell, FALSE)
    [] T \in FloatTypes -> FloatOfBits(cell)
    [] OTHER -> cell

\* `item as _`: the numeric cast to the parameter type of primitive `prim`
AsCast(T, item, prim) ==
  IF T \in FloatTypes THEN FloatBits(item, PrimWidth(prim))
  ELSE LeBytes(item, PrimWidth(prim))

\* the suffix of the primitives the row of impl_array_type! for T names
RowSuffix(T) ==
  CASE T \in {"i8", "u8"} -> "U8"
    [] T \in {"i16", "u16"} -> "U16"
    [] T \in {"i32", "u32"} -> "U32"
    [] T \in {"i64", "u64"} -> "U64"
    [] T = "f32" -> "F32"
    [] T = "f64" -> "F64"
    [] T \in {"isize", "usize"} -> (IF PointerWidth = 32 THEN "U32" ELSE "U64")

\* T::push
PushPrim(T) ==
  CASE T \in ScalarTypes -> PrimName("Append", RowSuffix(T))
    [] T \in PointerTypes -> PrimName("Append", RowSuffix("usize"))
    [] OTHER -> PrimName("Append", "Item")

\* an insert routed to the append primitive of its row
InsertPrim_Append(T) == PushPrim(T)

\* T::insert
InsertPrim(T) ==
  CASE T \in ScalarTypes -> PrimName("Insert", RowSuffix(T))
    [] T \in PointerTypes -> PrimName("Insert", RowSuffix("usize"))
    [] OTHER -> PrimName("Insert", "Item")

\* T::replace: the scalar rows name blArrayInsert* a second time, and the
\* pointer types call usize::insert
ReplacePrim(T) ==
  CASE T \in ScalarTypes -> PrimName("Insert", RowSuffix(T))
    [] T \in PointerTypes -> PrimName("Insert", RowSuffix("usize"))
    [] OTHER -> PrimName("Replace", "Item")

\* what the primitive is handed for `item`
ItemCell(T, item, prim) ==
  CASE T \in ScalarTypes -> AsCast(T, item, prim)
    [] T \in PointerTypes -> AsCast("usize", item, prim)
    [] OTHER -> MemImage(T, item)

errcode_to_result(code) == code
expect_mem_err(code) == IF code = "OutOfMemory" THEN "Panic" ELSE "Unit"
OutOfMemory_from_errcode(code) == IF code = "Ok" THEN "Ok" ELSE "OutOfMemory"

Ret(r, ret) == [w |-> r.w, id |-> r.id, ret |-> ret]
\* handle values passed into a call, and dropped at its end
ArgIn(w, cells) == [w EXCEPT !.elems = Retain(@, cells)]
ArgDrop(w, cells) == [w EXCEPT !.elems = Release(@, cells)]

Array_len(w, id) == blArrayGetSize(w, id)
\* a capacity() that reports the room left behind the elements
Array_capacity_Remaining(w, id) == ImplOf(w, id).cap - blArrayGetSize(w, id)

Array_capacity(w, id) == ImplOf(w, id).cap
Array_data_ptr(w, id) == blArrayGetData(w, id)
\* Deref: slice::from_raw_parts(data_ptr, len)
Array_deref(w, id) ==
  [i \in 1..Array_len(w, id) |-> Decode(ty, Array_data_ptr(w, id)[i])]

\* a try_reserve that asks for room for the elements it has, not for n
Array_try_reserve_Len(w, id, n, oom) ==
  LET r == blArrayReserve(w, id, Array_len(w, id), oom)
  IN  Ret(r, OutOfMemory_from_errcode(r.code))

\* a try_reserve that treats a failed allocation as reserve does
Array_try_reserve_Panics(w, id, n, oom) ==
  LET r == blArrayReserve(w, id, n, oom) IN Ret(r, expect_mem_err(r.code))

Array_try_reserve(w, id, n, oom) ==
  LET r == blArrayReserve(w, id, n, oom) IN Ret(r, OutOfMemory_from_errcode(r.code))

Array_reserve(w, id, n, oom) ==
  LET r == Array_try_reserve(w, id, n, oom)
  IN  Ret(r, IF r.ret = "Ok" THEN "Unit" ELSE "Panic")

\* a new() that reserves a buffer of its own
Array_new_Allocated(w) == Ret(blArrayReserve(w, 0, 1, FALSE), "Unit")

\* from_core(*Self::none()): a copy of the core of the none sentinel
Array_new(w) == Ret(Ok(w, 0), "Unit")

Array_with_capacity(w, cap, oom) == Array_reserve(w, 0, cap, oom)

Array_clear(w, id) == Ret(blArrayClear(w, id), "Unit")

Array_shrink_to_fit(w, id, oom) ==
  LET r == blArrayShrink(w, id, oom) IN Ret(r, expect_mem_err(r.code))

\* a truncate without the n.min(len) cap
Array_truncate_Uncapped(w, id, n, oom) ==
  LET r == blArrayResize(w, id, n, NullPtr, oom)
  IN  Ret(r, expect_mem_err(r.code))

Array_truncate(w, id, n, oom) ==
  LET r == blArrayResize(w, id, Min(n, Array_len(w, id)), NullPtr, oom)
  IN  Ret(r, expect_mem_err(r.code))

\* a resize that hands the engine no fill buffer
Array_resize_Zeroed(w, id, n, fill, oom) ==
  LET r == blArrayResize(w, id, n, NullPtr, oom)
  IN  Ret(r, expect_mem_err(r.code))

Array_resize(w, id, n, fill, oom) ==
  LET diff == IF n >= Array_len(w, id) THEN n - Array_len(w, id) ELSE 0
      buff == [k \in 1..diff |-> MemImage(ty, fill)]
      r == blArrayResize(ArgIn(w, buff), id, n, Ptr(buff), oom)
  IN  [w |-> ArgDrop(r.w, buff), id |-> r.id, ret |-> expect_mem_err(r.code)]

\* a remove that is one index off
Array_remove_Next(w, id, index) ==
  LET r == blArrayRemoveIndex(w, id, index + 1) IN Ret(r, errcode_to_result(r.code))

Array_remove(w, id, index) ==
  LET r == blArrayRemoveIndex(w, id, index) IN Ret(r, errcode_to_result(r.code))

Array_remove_range(w, id, start, end) ==
  LET r == blArrayRemoveRange(w, id, start, end) IN Ret(r, errcode_to_result(r.code))

SliceImage(data) == [k \in 1..Len(data) |-> MemImage(ty, data[k])]

\* an extend_from_slice that puts the slice in front of the elements
Array_extend_from_slice_Front(w, id, data, oom) ==
  LET r == blArrayInsertView(w, id, 0, SliceImage(data), oom)
  IN  Ret(r, expect_mem_err(r.code))

Array_extend_from_slice(w, id, data, oom) ==
  LET r == blArrayAppendView(w, id, SliceImage(data), oom)
  IN  Ret(r, expect_mem_err(r.code))

\* From<Vec<T>>: with_capacity(v.len()), then extend_from_slice(&v)
Array_from_vec(w, v, oom) ==
  LET this == Array_with_capacity(w, Len(v), oom)
  IN  IF this.ret = "Panic" THEN this
      ELSE Array_extend_from_slice(this.w, this.id, v, oom)

\* From<&[T]>: with_capacity(v.len()), then extend_from_slice(v)
Array_from_slice(w, v, oom) ==
  LET this == Array_with_capacity(w, Len(v), oom)
  IN  IF this.ret = "Panic" THEN this
      ELSE Array_extend_from_slice(this.w, this.id, v, oom)

Array_insert_from_slice(w, id, index, data, oom) ==
  LET r == blArrayInsertView(w, id, index, SliceImage(data), oom)
  IN  Ret(r, expect_mem_err(r.code))

Array_replace_from_slice(w, id, start, end, data, oom) ==
  LET r == blArrayReplaceView(w, id, start, end, SliceImage(data), oom)
  IN  Ret(r, expect_mem_err(r.code))

\* a call that forgets the item moved into it, and never drops it
ItemCall_Forgets(prim, w, id, index, item, oom) ==
  LET cell == ItemCell(ty, item, prim)
      r == FfiItemCall(prim, ArgIn(w, <<cell>>), id, index, cell, oom)
  IN  [w |-> r.w, id |-> r.id, ret |-> expect_mem_err(r.code)]

\* the call of T::push / T::insert / T::replace through primitive `prim`
ItemCall(prim, w, id, index, item, oom) ==
  LET cell == ItemCell(ty, item, prim)
      r == FfiItemCall(prim, ArgIn(w, <<cell>>), id, index, cell, oom)
  IN  [w |-> ArgDrop(r.w, <<cell>>), id |-> r.id, ret |-> expect_mem_err(r.code)]

Array_push(w, id, item, oom) == ItemCall(PushPrim(ty), w, id, 0, item, oom)
Array_insert(w, id, index, item, oom) == ItemCall(InsertPrim(ty), w, id, index, item, oom)
Array_replace(w, id, index, item, oom) == ItemCall(ReplacePrim(ty), w, id, index, item, oom)

\* a mutable slice that always copies, whoever else holds the allocation
Array_deref_mut_Copies(w, id, oom) ==
  LET r == IF oom THEN Fail(w, id, "OutOfMemory")
           ELSE ImplRealloc(w, id, ImplOf(w, id).data, ImplOf(w, id).cap)
  IN  [w |-> r.w, id |-> r.id, ret |-> expect_mem_err(r.code), ptr |-> r.id]

\* a mutable slice made whatever blArrayMakeMutable answered
Array_deref_mut_Unchecked(w, id, oom) ==
  LET r == blArrayMakeMutable(w, id, oom)
  IN  [w |-> r.w, id |-> r.id, ret |-> "Unit", ptr |-> r.id]

\* a mutable slice onto the allocation as it is, shared or not
Array_deref_mut_Shared(w, id, oom) ==
  [w |-> w, id |-> id, ret |-> "Unit", ptr |-> id]

\* DerefMut: the slice is made from the pointer blArrayMakeMutable returns;
\* ptr is the allocation the slice writes to
Array_deref_mut(w, id, oom) ==
  LET r == blArrayMakeMutable(w, id, oom)
  IN  [w |-> r.w, id |-> r.id, ret |-> expect_mem_err(r.code), ptr |-> r.id]

\* slice[index] = item through the mutable slice: the old value is dropped,
\* the new one moved in
SliceWrite(w, ptr, index, item) ==
  LET old == w.heap[ptr].data[index + 1]
      cell == MemImage(ty, item)
  IN  [heap |-> [w.heap EXCEPT ![ptr].data[index + 1] = cell],
       elems |-> Release(Retain(w.elems, <<cell>>), <<old>>)]

\* a clone that copies the core and takes no reference
Array_clone_Bitwise(w, id) == Ret(Ok(w, id), "Unit")

\* init_weak: a second handle onto the same allocation
Array_clone(w, id) ==
  IF id = 0 THEN Ret(Ok(w, 0), "Unit")
  ELSE Ret(Ok([w EXCEPT !.heap[id].rc = @ + 1], id), "Unit")

\* an eq that compares the allocations the handles are bound to
Array_eq_Identity(w, a, b) ==
  Ret(Ok(w, a), IF a = b THEN "true" ELSE "false")

\* PartialEq::eq: blArrayEquals
Array_eq(w, a, b) ==
  Ret(Ok(w, a), IF blArrayEquals(w, a, b) THEN "true" ELSE "false")

\* Drop: blArrayReset
Array_drop(w, id) == Ret(Ok(ImplRelease(w, id), 0), "Unit")

(***************************************************************************)
(* The calls as actions on handle h.  A call that panics ends the run.     *)
(***************************************************************************)
World == [heap |-> heap, elems |-> elems]
Live(h) == hs[h] # Dead
NoCall == [op |-> "none", h |-> "a", ret |-> "Unit", moved |-> FALSE]
\* a run goes on until the call the model observes
Running == last = NoCall
\* the indexes a caller passes: the elements of a full array, one past the
\* end of every shorter one
Indices == 0..(MaxLen - 1)
\* the lengths and range ends a caller passes
Sizes == 0..MaxLen
\* the longest slice a caller passes, the largest capacity one asks for
MaxSlice == MaxLen
MaxCap == MaxLen
RECURSIVE SeqsUpTo(_, _)
SeqsUpTo(S, n) ==
  IF n = 0 THEN {<<>>}
  ELSE SeqsUpTo(S, n - 1)
         \cup {Append(q, x) : q \in {p \in SeqsUpTo(S, n - 1) : Len(p) = n - 1}, x \in S}
Slices == SeqsUpTo(Items(ty), MaxSlice)

Contents(h) == Array_deref(World, hs[h])
Length(h) == Array_len(World, hs[h])
Capacity(h) == Array_capacity(World, hs[h])

\* Allocation ids are addresses, and which address an allocation gets is the
\* allocator's choice: after every call the allocations are renamed in the
\* order the handles "a", "b" name them.  Whether the call rebound its handle
\* is kept in last.moved.
CanonId(h2, id) ==
  IF id <= 0 THEN id
  ELSE IF h2["a"] > 0 THEN (IF id = h2["a"] THEN 1 ELSE 2)
  ELSE 1

CanonHs(h2) == [h \in Handles |-> CanonId(h2, h2[h])]

CanonHeap(h2, hp2) ==
  [i \in ImplIds |->
     IF \E h \in Handles : CanonId(h2, h2[h]) = i
       THEN hp2[h2[CHOOSE h \in Handles : CanonId(h2, h2[h]) = i]]
       ELSE Free]

\* the outcome r of call `op` on h becomes the state; a panic unwinds, which
\* drops every handle of the run, and the next run starts from there
Return(op, h, r) ==
  /\ Array_len(r.w, r.id) <= MaxLen
  /\ IF r.ret = "Panic"
       THEN /\ hs' = [g \in Handles |-> Dead]
            /\ heap' = [i \in ImplIds |-> Free]
            /\ elems' = [e \in ElemImpls |-> 1]
       ELSE LET h2 == [hs EXCEPT ![h] = r.id] IN
            /\ hs' = CanonHs(h2)
            /\ heap' = CanonHeap(h2, r.w.heap)
            /\ elems' = r.w.elems
  /\ last' \in {NoCall,
                [op |-> op, h |-> h, ret |-> r.ret,
                 moved |-> r.ret # "Panic" /\ hs[h] # Dead /\ r.id # hs[h]]}
  /\ UNCHANGED <<ty, found, features, coder, glyphs>>

\* the first array of a run; a second handle is always made by clone
New(h) ==
  /\ Running /\ \A g \in Handles : ~Live(g)
  /\ Return("new", h, Array_new(World))

WithCapacityOf(h, cap, oom) ==
  /\ Running /\ \A g \in Handles : ~Live(g)
  /\ Return("with_capacity", h, Array_with_capacity(World, cap, oom))

FromVecOf(h, v, oom) ==
  /\ Running /\ \A g \in Handles : ~Live(g)
  /\ Return("from_vec", h, Array_from_vec(World, v, oom))

FromSliceOf(h, v, oom) ==
  /\ Running /\ \A g \in Handles : ~Live(g)
  /\ Return("from_slice", h, Array_from_slice(World, v, oom))

Clone(h, g) ==
  /\ Running /\ Live(h) /\ ~Live(g)
  /\ Return("clone", g, Array_clone(World, hs[h]))

Eq(h, g) ==
  /\ Running /\ Live(h) /\ Live(g)
  /\ Return("eq", h, Array_eq(World, hs[h], hs[g]))

Drop(h) ==
  /\ Running /\ Live(h)
  /\ LET r == Array_drop(World, hs[h])
         h2 == [hs EXCEPT ![h] = Dead]
     IN  /\ hs' = CanonHs(h2)
         /\ heap' = CanonHeap(h2, r.w.heap)
         /\ elems' = r.w.elems
         /\ last' \in {NoCall, [op |-> "drop", h |-> h, ret |-> r.ret, moved |-> FALSE]}
         /\ UNCHANGED <<ty, found, features, coder, glyphs>>

Clear(h) ==
  /\ Running /\ Live(h)
  /\ Return("clear", h, Array_clear(World, hs[h]))

ShrinkToFitOf(h, oom) ==
  /\ Running /\ Live(h)
  /\ Return("shrink_to_fit", h, Array_shrink_to_fit(World, hs[h], oom))

ReserveOf(h, n, oom) ==
  /\ Running /\ Live(h)
  /\ Return("reserve", h, Array_reserve(World, hs[h], n, oom))

TryReserveOf(h, n, oom) ==
  /\ Running /\ Live(h)
  /\ Return("try_reserve", h, Array_try_reserve(World, hs[h], n, oom))

TruncateTo(h, n, oom) ==
  /\ Running /\ Live(h)
  /\ Return("truncate", h, Array_truncate(World, hs[h], n, oom))

ResizeTo(h, n, fill, oom) ==
  /\ Running /\ Live(h)
  /\ Return("resize", h, Array_resize(World, hs[h], n, fill, oom))

RemoveAt(h, index) ==
  /\ Running /\ Live(h)
  /\ Return("remove", h, Array_remove(World, hs[h], index))

RemoveRangeOf(h, start, end) ==
  /\ Running /\ Live(h)
  /\ Return("remove_range", h, Array_remove_range(World, hs[h], start, end))

PushOf(h, item, oom) ==
  /\ Running /\ Live(h)
  /\ Return("push", h, Array_push(World, hs[h], item, oom))

InsertAt(h, index, item, oom) ==
  /\ Running /\ Live(h)
  /\ Return("insert", h, Array_insert(World, hs[h], index, item, oom))

ReplaceAt(h, index, item, oom) ==
  /\ Running /\ Live(h)
  /\ Return("replace", h, Array_replace(World, hs[h], index, item, oom))

ExtendFromSliceOf(h, data, oom) ==
  /\ Running /\ Live(h)
  /\ Length(h) + Len(data) <= MaxLen
  /\ Return("extend_from_slice", h, Array_extend_from_slice(World, hs[h], data, oom))

InsertFromSliceAt(h, index, data, oom) ==
  /\ Running /\ Live(h)
  /\ Length(h) + Len(data) <= MaxLen
  /\ Return("insert_from_slice", h,
            Array_insert_from_slice(World, hs[h], index, data, oom))

ReplaceFromSliceAt(h, start, end, data, oom) ==
  /\ Running /\ Live(h)
  /\ Return("replace_from_slice", h,
            Array_replace_from_slice(World, hs[h], start, end, data, oom))

\* arr[index] = item: a write through the mutable slice
WriteMutAt(h, index, item, oom) ==
  /\ Running /\ Live(h)
  /\ index < Length(h)
  /\ LET m == Array_deref_mut(World, hs[h], oom) IN
       Return("deref_mut", h,
              IF m.ret = "Panic" THEN Ret(m, "Panic")
              ELSE [w |-> SliceWrite(m.w, m.ptr, index, item),
                    id |-> m.id, ret |-> "Unit"])

WithCapacity(h) == \E cap \in 0..MaxCap, oom \in BOOLEAN : WithCapacityOf(h, cap, oom)
ShrinkToFit(h) == \E oom \in BOOLEAN : ShrinkToFitOf(h, oom)
Reserve(h) == \E n \in 0..MaxCap, oom \in BOOLEAN : ReserveOf(h, n, oom)
TryReserve(h) == \E n \in 0..MaxCap, oom \in BOOLEAN : TryReserveOf(h, n, oom)
Truncate(h) == \E n \in Sizes, oom \in BOOLEAN : TruncateTo(h, n, oom)
Resize(h) == \E n \in Sizes, fill \in Items(ty), oom \in BOOLEAN : ResizeTo(h, n, fill, oom)
FromVec(h) == \E v \in Slices, oom \in BOOLEAN : FromVecOf(h, v, oom)
FromSlice(h) == \E v \in Slices, oom \in BOOLEAN : FromSliceOf(h, v, oom)
Remove(h) == \E index \in Indices : RemoveAt(h, index)
RemoveRange(h) == \E start \in Sizes, end \in Sizes : RemoveRangeOf(h, start, end)
Push(h) == \E item \in Items(ty), oom \in BOOLEAN : PushOf(h, item, oom)
Insert(h) ==
  \E index \in Indices, item \in Items(ty), oom \in BOOLEAN : InsertAt(h, index, item, oom)
Replace(h) ==
  \E index \in Indices, item \in Items(ty), oom \in BOOLEAN : ReplaceAt(h, index, item, oom)
ExtendFromSlice(h) == \E data \in Slices, oom \in BOOLEAN : ExtendFromSliceOf(h, data, oom)
InsertFromSlice(h) ==
  \E index \in Indices, data \in Slices, oom \in BOOLEAN :
    InsertFromSliceAt(h, index, data, oom)
ReplaceFromSlice(h) ==
  \E start \in Sizes, end \in Sizes, data \in Slices, oom \in BOOLEAN :
    ReplaceFromSliceAt(h, start, end, data, oom)
WriteMut(h) ==
  \E index \in Indices, item \in Items(ty), oom \in BOOLEAN : WriteMutAt(h, index, item, oom)

NoFind == [keys |-> <<>>, pos |-> 0]

\* ImageCodecFeatures: the two bits create_decoder / create_encoder ask for
Capabilities == {"Read", "Write"}
\* the fields of a BLImageDecoderImpl / BLImageEncoderImpl the wrappers read
NewCoderImpl(codec) ==
  [codec |-> codec, lastResult |-> "Ok", frameIndex |-> 0, bufferIndex |-> 0]
\* no decoder or encoder: the none sentinel
NoCoder == [kind |-> "none", from |-> "E1", impl |-> NewCoderImpl("E1")]

\* no glyph buffer: none made yet, or the one made was dropped
NoGlyphBuffer == [live |-> FALSE, flags |-> {}, items |-> <<>>]

InitOf(types) ==
  /\ ty \in types
  /\ hs = [h \in Handles |-> Dead]
  /\ heap = [i \in ImplIds |-> Free]
  /\ elems = [e \in ElemImpls |-> 1]
  /\ last = NoCall
  /\ found = NoFind
  /\ features = [e \in ElemImpls |-> Capabilities]
  /\ coder = NoCoder
  /\ glyphs = NoGlyphBuffer

(***************************************************************************)
(* Spec: an array and its clone, under every call that changes an array.   *)
(***************************************************************************)
SharedTypes == {"i32", "Tag", "Image"}

Init == InitOf(SharedTypes)

Next ==
  \/ New("a") \/ WithCapacity("a")
  \/ \E h \in Handles :
       \/ Drop(h)
       \/ \E g \in Handles : Clone(h, g)
       \/ \E g \in Handles : Eq(h, g)
       \/ Clear(h) \/ ShrinkToFit(h) \/ Reserve(h) \/ TryReserve(h)
       \/ Truncate(h) \/ Resize(h) \/ Remove(h) \/ RemoveRange(h)
       \/ Push(h) \/ Insert(h) \/ Replace(h)
       \/ ExtendFromSlice(h) \/ WriteMut(h)

Spec == Init /\ [][Next]_vars

(***************************************************************************)
(* SpecShapes: one array of every element type.                            *)
(***************************************************************************)
InitShapes == InitOf(Types)

NextShapes ==
  \/ New("a") \/ WithCapacity("a") \/ FromVec("a") \/ FromSlice("a") \/ Drop("a")
  \/ Clear("a") \/ ShrinkToFit("a") \/ Reserve("a") \/ TryReserve("a")
  \/ Truncate("a") \/ Resize("a") \/ Remove("a") \/ RemoveRange("a")
  \/ Push("a") \/ Insert("a") \/ Replace("a")
  \/ ExtendFromSlice("a") \/ InsertFromSlice("a") \/ ReplaceFromSlice("a")
  \/ WriteMut("a")

SpecShapes == InitShapes /\ [][NextShapes]_vars

(***************************************************************************)
(* SpecCodec: a list of image codecs and the lookup of a codec by data.    *)
(***************************************************************************)
\* the scores the codecs give one byte blob
Scores == [ElemImpls -> 0..MaxScore]

\* ImageCodec::inspect_data: the score the codec gives the blob
ImageCodec_inspect_data(codec, score) == score[codec]

\* Iterator::max_by_key as a fold over the positions of the slice: the fold
\* gives up the element it holds unless its key is greater than the next
\* one's; 0 stands for None
RECURSIVE max_by_key(_, _, _)
max_by_key(keys, best, k) ==
  IF k > Len(keys) THEN best
  ELSE max_by_key(keys, IF best # 0 /\ keys[best] > keys[k] THEN best ELSE k, k + 1)

Array_find_codec_by_data(w, id, score) ==
  LET codecs == Array_deref(w, id)
      keys == [i \in 1..Len(codecs) |-> ImageCodec_inspect_data(codecs[i], score)]
  IN  [keys |-> keys, pos |-> max_by_key(keys, 0, 1)]

FindCodecByDataOf(h, score) ==
  /\ Running /\ Live(h) /\ ty = "ImageCodec"
  /\ found' = Array_find_codec_by_data(World, hs[h], score)
  /\ last' = [op |-> "find_codec_by_data", h |-> h,
              ret |-> IF found'.pos = 0 THEN "None" ELSE "Some", moved |-> FALSE]
  /\ UNCHANGED <<ty, hs, heap, elems, features, coder, glyphs>>

FindCodecByData(h) == \E score \in Scores : FindCodecByDataOf(h, score)

InitCodec == InitOf({"ImageCodec"})

NextCodec ==
  \/ New("a") \/ Push("a") \/ Insert("a") \/ Remove("a") \/ Clear("a")
  \/ FindCodecByData("a")

SpecCodec == InitCodec /\ [][NextCodec]_vars

(***************************************************************************)
(* SpecCoding: a decoder or encoder created from a codec.  The engine      *)
(* behind blImageCodec*, blImageDecoder* and blImageEncoder* follows the   *)
(* specification: a call that fails records its error in lastResult and    *)
(* returns it, an errored impl answers every further call with that error  *)
(* until it is restarted, a frame read or written moves frameIndex on by   *)
(* one and bufferIndex by the bytes it took.                               *)
(***************************************************************************)
\* the errors the engine finds in malformed or truncated input
FormatErrors == {"InvalidData", "DataTruncated"}
\* what the engine makes of the input of one call
Outcomes == {"Ok"} \cup FormatErrors
\* the bytes one successful call takes from or adds to the buffer
Consumed == 1..MaxBuffer

blImageCodecCreateDecoder(codec) ==
  IF "Read" \in features[codec]
    THEN [code |-> "Ok", impl |-> NewCoderImpl(codec)]
    ELSE [code |-> "ImageDecoderNotProvided", impl |-> NoCoder.impl]

blImageCodecCreateEncoder(codec) ==
  IF "Write" \in features[codec]
    THEN [code |-> "Ok", impl |-> NewCoderImpl(codec)]
    ELSE [code |-> "ImageEncoderNotProvided", impl |-> NoCoder.impl]

blImageCoderRestart(impl) ==
  [code |-> "Ok",
   impl |-> [impl EXCEPT !.lastResult = "Ok", !.frameIndex = 0, !.bufferIndex = 0]]
blImageDecoderRestart(impl) == blImageCoderRestart(impl)
blImageEncoderRestart(impl) == blImageCoderRestart(impl)

\* one call that reads or writes: `frames` is what a success adds to frameIndex
blImageCoderStep(impl, outcome, n, frames) ==
  IF impl.lastResult # "Ok" THEN [code |-> impl.lastResult, impl |-> impl]
  ELSE IF outcome # "Ok"
    THEN [code |-> outcome, impl |-> [impl EXCEPT !.lastResult = outcome]]
  ELSE [code |-> "Ok",
        impl |-> [impl EXCEPT !.frameIndex = @ + frames, !.bufferIndex = @ + n]]
blImageDecoderReadInfo(impl, outcome, n) == blImageCoderStep(impl, outcome, n, 0)
blImageDecoderReadFrame(impl, outcome, n) == blImageCoderStep(impl, outcome, n, 1)
blImageEncoderWriteFrame(impl, outcome, n) == blImageCoderStep(impl, outcome, n, 1)

\* a create_decoder that hands out the decoder whatever the engine answered
ImageCodec_create_decoder_Unchecked(codec) ==
  LET r == blImageCodecCreateDecoder(codec)
  IN  [ret |-> "Some", kind |-> "Decoder", impl |-> r.impl]

\* errcode_to_result(..).map(|_| decoder).ok()
ImageCodec_create_decoder(codec) ==
  LET r == blImageCodecCreateDecoder(codec)
  IN  IF errcode_to_result(r.code) = "Ok"
        THEN [ret |-> "Some", kind |-> "Decoder", impl |-> r.impl]
        ELSE [ret |-> "None", kind |-> "none", impl |-> NoCoder.impl]

ImageCodec_create_encoder(codec) ==
  LET r == blImageCodecCreateEncoder(codec)
  IN  IF errcode_to_result(r.code) = "Ok"
        THEN [ret |-> "Some", kind |-> "Encoder", impl |-> r.impl]
        ELSE [ret |-> "None", kind |-> "none", impl |-> NoCoder.impl]

ImageEncoder_codec(impl) == impl.codec
ImageEncoder_restart(impl) ==
  LET r == blImageEncoderRestart(impl)
  IN  [impl |-> r.impl, ret |-> errcode_to_result(r.code)]
ImageEncoder_last_result(impl) == errcode_to_result(impl.lastResult)
ImageEncoder_frame_index(impl) == impl.frameIndex
ImageEncoder_buffer_index(impl) == impl.bufferIndex
\* Ok carries the Array<u8> the engine filled, an error drops it
ImageEncoder_write_frame(impl, outcome, n) ==
  LET r == blImageEncoderWriteFrame(impl, outcome, n)
  IN  [impl |-> r.impl, ret |-> errcode_to_result(r.code)]

\* a codec() that answers with the first codec, not the back-reference
ImageDecoder_codec_First(impl) == "E1"

ImageDecoder_codec(impl) == impl.codec
\* a restart that returns Ok without calling the engine
ImageDecoder_restart_Skipped(impl) == [impl |-> impl, ret |-> "Ok"]

ImageDecoder_restart(impl) ==
  LET r == blImageDecoderRestart(impl)
  IN  [impl |-> r.impl, ret |-> errcode_to_result(r.code)]
\* a last_result() that never reports an error
ImageDecoder_last_result_Ok(impl) == "Ok"

ImageDecoder_last_result(impl) == errcode_to_result(impl.lastResult)
ImageDecoder_frame_index(impl) == impl.frameIndex
ImageDecoder_buffer_index(impl) == impl.bufferIndex
\* Ok carries the ImageInfo the engine filled
ImageDecoder_read_info(impl, outcome, n) ==
  LET r == blImageDecoderReadInfo(impl, outcome, n)
  IN  [impl |-> r.impl, ret |-> errcode_to_result(r.code)]
\* a read_frame that calls the header-reading primitive
ImageDecoder_read_frame_Info(impl, outcome, n) ==
  LET r == blImageDecoderReadInfo(impl, outcome, n)
  IN  [impl |-> r.impl, ret |-> errcode_to_result(r.code)]

\* Ok carries the Image the engine decoded, an error drops the empty one
ImageDecoder_read_frame(impl, outcome, n) ==
  LET r == blImageDecoderReadFrame(impl, outcome, n)
  IN  [impl |-> r.impl, ret |-> errcode_to_result(r.code)]

\* what the decoder or encoder of the run reports
IsDecoder == coder.kind = "Decoder"
IsEncoder == coder.kind = "Encoder"
CoderCodec ==
  IF IsDecoder THEN ImageDecoder_codec(coder.impl) ELSE ImageEncoder_codec(coder.impl)
LastResult ==
  IF IsDecoder THEN ImageDecoder_last_result(coder.impl)
  ELSE ImageEncoder_last_result(coder.impl)
FrameIndex ==
  IF IsDecoder THEN ImageDecoder_frame_index(coder.impl)
  ELSE ImageEncoder_frame_index(coder.impl)
BufferIndex ==
  IF IsDecoder THEN ImageDecoder_buffer_index(coder.impl)
  ELSE ImageEncoder_buffer_index(coder.impl)

\* the outcome of a call on the decoder or encoder becomes the state; `on` is
\* the codec, decoder or encoder the call was made on
CoderReturn(op, on, c, ret) ==
  /\ c.impl.frameIndex <= MaxFrames /\ c.impl.bufferIndex <= MaxBuffer
  /\ coder' = c
  /\ last' \in {NoCall, [op |-> op, h |-> on, ret |-> ret, moved |-> c # coder]}
  /\ UNCHANGED <<ty, hs, heap, found, features, glyphs>>

\* the decoder or encoder holds a reference to its codec
Created(op, codec, r) ==
  /\ CoderReturn(op, codec,
                 [kind |-> r.kind, impl |-> r.impl,
                  from |-> IF r.ret = "Some" THEN codec ELSE NoCoder.from],
                 r.ret)
  /\ elems' = IF r.ret = "Some" THEN [elems EXCEPT ![codec] = @ + 1] ELSE elems

CreateDecoder(codec) ==
  /\ Running /\ coder.kind = "none"
  /\ Created("create_decoder", codec, ImageCodec_create_decoder(codec))

CreateEncoder(codec) ==
  /\ Running /\ coder.kind = "none"
  /\ Created("create_encoder", codec, ImageCodec_create_encoder(codec))

\* Drop: blImageDecoderReset / blImageEncoderReset
DropCoder ==
  /\ Running /\ coder.kind # "none"
  /\ CoderReturn("drop", coder.kind, NoCoder, "Unit")
  /\ elems' = [elems EXCEPT ![coder.impl.codec] = @ - 1]

Called_on(r) ==
  /\ CoderReturn(r.op, coder.kind, [coder EXCEPT !.impl = r.impl], r.ret)
  /\ UNCHANGED elems

Restart ==
  /\ Running /\ coder.kind # "none"
  /\ LET r == IF IsDecoder THEN ImageDecoder_restart(coder.impl)
              ELSE ImageEncoder_restart(coder.impl)
     IN  Called_on([op |-> "restart", impl |-> r.impl, ret |-> r.ret])

ReadInfoOf(outcome, n) ==
  /\ Running /\ IsDecoder
  /\ LET r == ImageDecoder_read_info(coder.impl, outcome, n)
     IN  Called_on([op |-> "read_info", impl |-> r.impl, ret |-> r.ret])

ReadFrameOf(outcome, n) ==
  /\ Running /\ IsDecoder
  /\ LET r == ImageDecoder_read_frame(coder.impl, outcome, n)
     IN  Called_on([op |-> "read_frame", impl |-> r.impl, ret |-> r.ret])

WriteFrameOf(outcome, n) ==
  /\ Running /\ IsEncoder
  /\ LET r == ImageEncoder_write_frame(coder.impl, outcome, n)
     IN  Called_on([op |-> "write_frame", impl |-> r.impl, ret |-> r.ret])

ReadInfo == \E outcome \in Outcomes, n \in Consumed : ReadInfoOf(outcome, n)
ReadFrame == \E outcome \in Outcomes, n \in Consumed : ReadFrameOf(outcome, n)
WriteFrame == \E outcome \in Outcomes, n \in Consumed : WriteFrameOf(outcome, n)

InitCoding ==
  /\ ty = "ImageCodec"
  /\ hs = [h \in Handles |-> Dead]
  /\ heap = [i \in ImplIds |-> Free]
  /\ elems = [e \in ElemImpls |-> 1]
  /\ last = NoCall
  /\ found = NoFind
  /\ features \in [ElemImpls -> SUBSET Capabilities]
  /\ coder = NoCoder
  /\ glyphs = NoGlyphBuffer

NextCoding ==
  \/ \E codec \in ElemImpls : CreateDecoder(codec) \/ CreateEncoder(codec)
  \/ DropCoder \/ Restart
  \/ ReadInfo \/ ReadFrame \/ WriteFrame

SpecCoding == InitCoding /\ [][NextCoding]_vars

(***************************************************************************)
(* SpecGlyph: a glyph buffer.  The engine behind blGlyphBuffer* and the     *)
(* shaping pass follow the spec: a buffer is made empty with no flag set,  *)
(* text sets the text-content flag, clear empties the buffer and its       *)
(* flags, and a shaping pass turns text into glyphs and marks what it met. *)
(***************************************************************************)
\* the bits GlyphRunFlags names
GlyphRunFlags ==
  {"UCS4_CONTENT", "INVALID_TEXT", "UNDEFINED_GLYPHS", "INVALID_FONT_DATA"}
\* the marks a shaping pass may leave; RESERVED is a bit of the engine that
\* GlyphRunFlags does not name
ShapingMarks == {"UNDEFINED_GLYPHS", "INVALID_FONT_DATA", "RESERVED"}
\* the characters of a text by code point, and the texts a caller passes
Chars == {97, 233}
Texts == SeqsUpTo(Chars, MaxText)
\* GlyphId values: the undefined glyph and one other
GlyphIds == {0, 7}
GlyphRuns == SeqsUpTo(GlyphIds, MaxText)

blGlyphBufferInit == [live |-> TRUE, flags |-> {}, items |-> <<>>]
blGlyphBufferGetSize(g) == Len(g.items)
blGlyphBufferGetFlags(g) == g.flags
blGlyphBufferClear(g) == [g EXCEPT !.flags = {}, !.items = <<>>]
blGlyphBufferSetText(g, text, oom) ==
  IF oom THEN [code |-> "OutOfMemory", g |-> g]
  ELSE [code |-> "Ok", g |-> [g EXCEPT !.flags = {"UCS4_CONTENT"}, !.items = text]]
\* a shaping pass: the glyphs for the text, and the marks of what it met
blFontShape(g, run, marks) == [g EXCEPT !.flags = marks, !.items = run]

\* GlyphRunFlags::from_bits_truncate
from_bits_truncate(bits) == bits \cap GlyphRunFlags

GlyphBuffer_new == blGlyphBufferInit
GlyphBuffer_size(g) == blGlyphBufferGetSize(g)
GlyphBuffer_flags(g) == from_bits_truncate(blGlyphBufferGetFlags(g))
GlyphBuffer_has_text(g) == "UCS4_CONTENT" \in GlyphBuffer_flags(g)

\* a has_glyphs that wants items in the buffer
GlyphBuffer_has_glyphs_NonEmpty(g) ==
  ~GlyphBuffer_has_text(g) /\ GlyphBuffer_size(g) > 0

GlyphBuffer_has_glyphs(g) == ~GlyphBuffer_has_text(g)
GlyphBuffer_clear(g) == [g |-> blGlyphBufferClear(g), ret |-> "Unit"]
GlyphBuffer_set_utf8_text(g, text, oom) ==
  LET r == blGlyphBufferSetText(g, text, oom)
  IN  [g |-> r.g, ret |-> expect_mem_err(r.code)]
GlyphBuffer_from_utf8_text(text, oom) ==
  GlyphBuffer_set_utf8_text(GlyphBuffer_new, text, oom)

\* what the queries of the glyph buffer of the run answer
HasText == GlyphBuffer_has_text(glyphs)
HasGlyphs == GlyphBuffer_has_glyphs(glyphs)
Size == GlyphBuffer_size(glyphs)

\* the outcome of call `op` becomes the state; a panic unwinds and drops the
\* buffer
GlyphReturn(op, r) ==
  /\ glyphs' = IF r.ret = "Panic" THEN NoGlyphBuffer ELSE r.g
  /\ last' \in {NoCall,
                [op |-> op, h |-> "a", ret |-> r.ret,
                 moved |-> r.ret # "Panic" /\ r.g # glyphs]}
  /\ UNCHANGED <<ty, hs, heap, elems, found, features, coder>>

NewGlyphBuffer ==
  /\ Running /\ ~glyphs.live
  /\ GlyphReturn("GlyphBuffer::new", [g |-> GlyphBuffer_new, ret |-> "Unit"])

FromUtf8TextOf(text, oom) ==
  /\ Running /\ ~glyphs.live
  /\ GlyphReturn("GlyphBuffer::from_utf8_text", GlyphBuffer_from_utf8_text(text, oom))

SetUtf8TextOf(text, oom) ==
  /\ Running /\ glyphs.live
  /\ GlyphReturn("GlyphBuffer::set_utf8_text", GlyphBuffer_set_utf8_text(glyphs, text, oom))

ClearGlyphBuffer ==
  /\ Running /\ glyphs.live
  /\ GlyphReturn("GlyphBuffer::clear", GlyphBuffer_clear(glyphs))

\* the engine shapes the text of the buffer
ShapeOf(run, marks) ==
  /\ Running /\ glyphs.live /\ HasText
  /\ GlyphReturn("shape", [g |-> blFontShape(glyphs, run, marks), ret |-> "Unit"])

DropGlyphBuffer ==
  /\ Running /\ glyphs.live
  /\ GlyphReturn("GlyphBuffer::drop", [g |-> NoGlyphBuffer, ret |-> "Unit"])

FromUtf8Text == \E text \in Texts, oom \in BOOLEAN : FromUtf8TextOf(text, oom)
SetUtf8Text == \E text \in Texts, oom \in BOOLEAN : SetUtf8TextOf(text, oom)
Shape == \E run \in GlyphRuns, marks \in SUBSET ShapingMarks : ShapeOf(run, marks)

InitGlyph == InitOf({"u16"})

NextGlyph ==
  \/ NewGlyphBuffer \/ FromUtf8Text \/ SetUtf8Text \/ ClearGlyphBuffer
  \/ Shape \/ DropGlyphBuffer

SpecGlyph == InitGlyph /\ [][NextGlyph]_vars

(***************************************************************************)
(* The claims.                                                             *)
(***************************************************************************)
\* the last call was `op` on handle h
Called(op, h) == last.op = op /\ last.h = h

\* the calls C1 lists as mutations of an array
MutationOps ==
  {"push", "insert", "replace", "remove", "remove_range", "resize",
   "truncate", "clear", "extend_from_slice", "deref_mut"}

\* C1: copy-on-write isolation.  Right after b = a.clone() both handles read
\* the same element sequence, the one a read before; and a mutation through
\* one handle leaves the element sequence read through any other live handle
\* as it was.
C1_CowIsolation ==
  [][/\ \A h \in Handles, g \in Handles :
          (Called("clone", g)' /\ Clone(h, g))
            => Contents(g)' = Contents(h) /\ Contents(h)' = Contents(h)
     /\ \A h \in Handles : \A g \in Handles \ {h} :
          (last'.op \in MutationOps /\ last'.h = h /\ Live(g) /\ Live(g)')
            => Contents(g)' = Contents(g)]_vars

\* a write through the mutable slice has rebound its handle (the array was
\* shared), and the two handles now read different elements
C1_Witness ==
  /\ last.op = "deref_mut" /\ last.moved
  /\ Live("a") /\ Live("b") /\ hs["a"] # hs["b"]
  /\ Length("a") = Length("b") /\ Contents("a") # Contents("b")

\* C2: len() <= capacity() for every live array, after every call.
C2_LenLeCapacity ==
  \A h \in Handles : Live(h) => Length(h) <= Capacity(h)

\* a push has filled its array to a capacity it had to grow
C2_Witness ==
  /\ last.op = "push" /\ last.ret = "Unit" /\ last.moved
  /\ \E h \in Handles : Live(h) /\ Length(h) = MaxLen /\ Capacity(h) = MaxLen

\* C3: replace(index, item) with index < len() leaves len() as it was, puts
\* item at index and leaves every other element as it was, for every
\* element type.
C3_ReplaceInPlace ==
  [][\A h \in Handles, index \in Indices, item \in Items(ty), oom \in BOOLEAN :
       (Called("replace", h)' /\ ReplaceAt(h, index, item, oom) /\ index < Length(h) /\ last'.ret # "Panic")
         => /\ Length(h)' = Length(h)
            /\ Contents(h)' = [Contents(h) EXCEPT ![index + 1] = item]]_vars

C5_RemoveShifts ==
  [][\A h \in Handles, index \in Indices :
       (Called("remove", h)' /\ RemoveAt(h, index) /\ index < Length(h))
         => /\ last'.ret = "Ok"
            /\ Length(h)' = Length(h) - 1
            /\ Contents(h)' = SubSeq(Contents(h), 1, index)
                                \o SubSeq(Contents(h), index + 2, Length(h))]_vars

\* a remove returned Ok on a shared array, and its clone is one longer
C5_Witness ==
  /\ last.op = "remove" /\ last.ret = "Ok" /\ last.moved
  /\ Live("a") /\ Live("b") /\ Length("a") = Length("b") + 1

C7_Truncate ==
  [][\A h \in Handles, n \in Sizes, oom \in BOOLEAN :
       (Called("truncate", h)' /\ TruncateTo(h, n, oom))
         => /\ n >= Length(h) => Contents(h)' = Contents(h)
            /\ n < Length(h) => Contents(h)' = SubSeq(Contents(h), 1, n)
            /\ Length(h)' <= Length(h)]_vars

\* a truncate has cut a shared array short of its clone
C7_Witness ==
  /\ last.op = "truncate" /\ last.ret = "Unit" /\ last.moved
  /\ Live("a") /\ Live("b") /\ Length("a") < Length("b")

\* C8: when try_reserve(n) returns Ok, capacity() >= n and the elements and
\* len() are what they were.
C8_TryReserveOk ==
  [][\A h \in Handles, n \in 0..MaxCap, oom \in BOOLEAN :
       (Called("try_reserve", h)' /\ TryReserveOf(h, n, oom) /\ last'.ret = "Ok")
         => /\ Capacity(h)' >= n
            /\ Contents(h)' = Contents(h)]_vars

\* a try_reserve has moved a non-empty array to a larger allocation
C8_Witness ==
  /\ last.op = "try_reserve" /\ last.ret = "Ok" /\ last.moved
  /\ Live("a") /\ Length("a") > 0 /\ Capacity("a") > Length("a")

\* C9: when the allocation of try_reserve(n) fails, the call returns the
\* OutOfMemory error (no panic) and handles and allocations are unchanged.
C9_TryReserveFails ==
  [][\A h \in Handles, n \in 0..MaxCap, oom \in BOOLEAN :
       (Called("try_reserve", h)' /\ TryReserveOf(h, n, oom) /\ blArrayReserve(World, hs[h], n, oom).code # "Ok")
         => /\ last'.ret = "OutOfMemory"
            /\ hs' = hs /\ heap' = heap /\ elems' = elems]_vars

\* a try_reserve has failed on a non-empty array
C9_Witness ==
  /\ last.op = "try_reserve" /\ last.ret = "OutOfMemory"
  /\ Live("a") /\ Length("a") > 0

\* the first position of keys that holds the greatest key
FirstMaximum(keys) ==
  CHOOSE p \in 1..Len(keys) :
    /\ \A k \in 1..Len(keys) : keys[k] <= keys[p]
    /\ \A k \in 1..(p - 1) : keys[k] < keys[p]

\* C10: find_codec_by_data on a non-empty list returns a codec of the
\* greatest inspect_data score, and of several codecs with that score the
\* one that comes first in the list.
C10_FirstMaximum ==
  (last.op = "find_codec_by_data" /\ Length(last.h) > 0)
    => /\ found.pos > 0
       /\ found.keys[found.pos] = found.keys[FirstMaximum(found.keys)]
       /\ Contents(last.h)[found.pos] = Contents(last.h)[FirstMaximum(found.keys)]

\* the score of a codec whose format the blob is not: the least score
NoMatch == 0

\* C11: find_codec_by_data returns None when every codec of the list gives
\* the blob the no-match score, also when the list is not empty.
C11_NoneWhenNoMatch ==
  (last.op = "find_codec_by_data"
     /\ \A k \in 1..Len(found.keys) : found.keys[k] = NoMatch)
    => found.pos = 0

\* restart on the decoder or encoder impl
RestartOf(impl) ==
  IF IsDecoder THEN ImageDecoder_restart(impl) ELSE ImageEncoder_restart(impl)

\* C12: from any state of a decoder or encoder restart() leaves frame_index()
\* and buffer_index() at zero and last_result() Ok, and a second restart()
\* right after it leaves the two indexes at zero.
C12_RestartResets ==
  [][(last'.op = "restart" /\ Restart)
       => /\ FrameIndex' = 0 /\ BufferIndex' = 0 /\ LastResult' = "Ok"
          /\ RestartOf(coder'.impl).impl.frameIndex = 0
          /\ RestartOf(coder'.impl).impl.bufferIndex = 0]_vars

\* a restart has taken a decoder back from a state that was not the initial one
C12_Witness ==
  /\ last.op = "restart" /\ last.ret = "Ok" /\ last.moved
  /\ IsDecoder /\ FrameIndex = 0 /\ BufferIndex = 0

\* C13: create_decoder() / create_encoder() return None exactly when the
\* codec lacks the Read / Write capability and a decoder / encoder when it
\* has it; neither returns an error or panics.
C13_CreationByCapability ==
  /\ last.op = "create_decoder"
       => /\ last.ret \in {"Some", "None"}
          /\ last.ret = "None" <=> "Read" \notin features[last.h]
          /\ last.ret = "Some" <=> IsDecoder
  /\ last.op = "create_encoder"
       => /\ last.ret \in {"Some", "None"}
          /\ last.ret = "None" <=> "Write" \notin features[last.h]
          /\ last.ret = "Some" <=> IsEncoder

\* a write-only codec has refused to create a decoder
C13_Witness ==
  /\ last.op = "create_decoder" /\ last.ret = "None"
  /\ features[last.h] = {"Write"} /\ coder = NoCoder

\* C14: a decoder or encoder reports from codec() the codec it was created
\* from, in every reachable state.
C14_CodecKept ==
  coder.kind # "none" => CoderCodec = coder.from

\* a decoder of the second codec has failed to read a frame after reading one
C14_Witness ==
  /\ last.op = "read_frame" /\ last.ret \in FormatErrors
  /\ IsDecoder /\ coder.from = "E2" /\ CoderCodec = "E2" /\ FrameIndex > 0

\* C15: a read_frame or write_frame that succeeds moves frame_index() on, and
\* one that fails returns an error and leaves frame_index() as it was.
C15_FrameIndexAdvances ==
  [][\A outcome \in Outcomes, n \in Consumed :
       /\ (last'.op = "read_frame" /\ ReadFrameOf(outcome, n))
            => IF last'.ret = "Ok" THEN FrameIndex' = FrameIndex + 1
               ELSE last'.ret \in FormatErrors /\ FrameIndex' = FrameIndex
       /\ (last'.op = "write_frame" /\ WriteFrameOf(outcome, n))
            => IF last'.ret = "Ok" THEN FrameIndex' = FrameIndex + 1
               ELSE last'.ret \in FormatErrors /\ FrameIndex' = FrameIndex]_vars

\* a read_frame has failed on malformed input after a frame was read
C15_Witness ==
  /\ last.op = "read_frame" /\ last.ret = "InvalidData" /\ last.moved
  /\ FrameIndex = 1

\* C16: the format error a decoder or encoder call returns is the one
\* last_result() reports afterwards; the handle stays a decoder or encoder of
\* its codec, and a restart() of an errored one returns Ok and leaves frame
\* index 0, buffer offset 0 and last_result() Ok.
C16_ErrorRecordedAndRecovered ==
  [][/\ (last'.op \in {"read_info", "read_frame", "write_frame"}
           /\ last'.ret \in FormatErrors)
          => /\ LastResult' = last'.ret
             /\ coder'.kind = coder.kind /\ CoderCodec' = CoderCodec
     /\ (last'.op = "restart" /\ LastResult \in FormatErrors /\ Restart)
          => /\ last'.ret = "Ok" /\ coder'.kind = coder.kind
             /\ LastResult' = "Ok" /\ FrameIndex' = 0 /\ BufferIndex' = 0]_vars

\* a read_info has failed on a truncated header, and last_result() reports it
C16_Witness ==
  /\ last.op = "read_info" /\ last.ret = "DataTruncated" /\ last.moved
  /\ LastResult = "DataTruncated"


\* C17: a == b is true exactly when the two arrays have the same len() and
\* equal elements at every index, whether they share an allocation, sit on
\* the none sentinel or differ in capacity.
C17_EqIsElementwise ==
  [][\A h \in Handles : \A g \in Handles :
       (Called("eq", h)' /\ Eq(h, g))
         => (last'.ret = "true"
               <=> /\ Length(h) = Length(g)
                   /\ \A i \in 1..Length(h) : Contents(h)[i] = Contents(g)[i])]_vars

\* an array on the none sentinel has compared equal to an empty one that owns
\* reserved capacity
C17_Witness ==
  /\ last.op = "eq" /\ last.ret = "true" /\ last.h = "a"
  /\ hs["a"] = 0 /\ hs["b"] > 0 /\ Capacity("b") > 0 /\ Length("b") = 0


\* the operations that may allocate, by the name of their aborting form
AllocatingOps ==
  {"reserve", "push", "insert", "resize", "extend_from_slice",
   "insert_from_slice", "replace_from_slice", "deref_mut"}

\* the non-aborting entry point of an operation, where impl Array has one
TryForms == [reserve |-> "try_reserve"]

\* C18: every allocating operation has a non-aborting entry point that
\* reports OutOfMemory: none of them aborts on a failed allocation without
\* such a form beside it, and the form returns OutOfMemory, never a panic.
C18_FallibleEntryPoints ==
  /\ (last.op \in AllocatingOps /\ last.ret = "Panic") => last.op \in DOMAIN TryForms
  /\ last.op \in {TryForms[op] : op \in DOMAIN TryForms} => last.ret # "Panic"


\* what remove answers to the index one past the end: the policy every other
\* operation is held to
OutOfRangePolicy(h) == Array_remove(World, hs[h], Length(h)).ret

\* a call has met the out-of-range policy: it was rejected, as remove is
Rejected(h) ==
  /\ OutOfRangePolicy(h) \notin {"Ok", "Unit"}
  /\ last'.ret = OutOfRangePolicy(h)

\* C19: insert, replace, remove, remove_range and replace_from_slice treat an
\* out-of-range index by one policy: each of them rejects it, and in the same
\* way (all by the bounds error, or all by aborting); none returns normally
\* while another rejects.
C19_OnePolicy ==
  [][\A index \in Indices, start \in Sizes, end \in Sizes :
       /\ (Called("insert", "a")' /\ index > Length("a")
             /\ \E item \in Items(ty), oom \in BOOLEAN : InsertAt("a", index, item, oom))
            => Rejected("a")
       /\ (Called("replace", "a")' /\ index >= Length("a")
             /\ \E item \in Items(ty), oom \in BOOLEAN : ReplaceAt("a", index, item, oom))
            => Rejected("a")
       /\ (Called("remove", "a")' /\ index >= Length("a") /\ RemoveAt("a", index))
            => Rejected("a")
       /\ (Called("remove_range", "a")' /\ end > Length("a") /\ start <= end
             /\ RemoveRangeOf("a", start, end))
            => Rejected("a")
       /\ (Called("replace_from_slice", "a")' /\ end > Length("a") /\ start <= end
             /\ \E data \in Slices, oom \in BOOLEAN :
                  ReplaceFromSliceAt("a", start, end, data, oom))
            => Rejected("a")]_vars


RECURSIVE PushEach(_, _, _)
\* push of the items of `data` one by one, in order, on the array at id
PushEach(w, id, data) ==
  IF data = <<>> THEN [w |-> w, id |-> id]
  ELSE LET r == Array_push(w, id, Head(data), FALSE)
       IN  PushEach(r.w, r.id, Tail(data))

Holders(i) == {h \in Handles : hs[h] = i}

\* the array slots that name element allocation e, over the arrays of nested
\* handles
SlotCount(e) ==
  IF IsVar
    THEN Cardinality({p \in ImplIds \X (1..MaxLen) :
                        /\ p[2] <= Len(heap[p[1]].data)
                        /\ heap[p[1]].data[p[2]] = e})
    ELSE 0

\* the decoder or encoder refers to codec e
CoderRefs(e) == IF coder.kind # "none" /\ coder.from = e THEN 1 ELSE 0

\* C21: the reference count of every allocation that is not the sentinel is
\* the number of live handles bound to it, an allocation is free exactly when
\* that count is zero, and a codec is referenced once by its own handle, once
\* by every array slot and once by the decoder or encoder made from it.
C21_RefCountIsHolders ==
  /\ \A i \in ImplIds :
       /\ heap[i].rc = Cardinality(Holders(i))
       /\ heap[i].rc = 0 <=> heap[i] = Free
  /\ \A e \in ElemImpls : elems[e] = 1 + SlotCount(e) + CoderRefs(e)

\* a clone has bound a second handle to an allocation that holds elements
C21_Witness ==
  /\ last.op = "clone" /\ hs["a"] > 0 /\ hs["b"] = hs["a"]
  /\ heap[hs["a"]].rc = 2 /\ Length("a") > 0


\* the calls that may bind a handle to an allocation of its own
BindingOps == MutationOps \cup {"reserve", "try_reserve"}

\* C22: the none sentinel is never freed and never written.  A handle made by
\* new() is bound to the sentinel and no allocation exists for it; a failed
\* create_decoder / create_encoder leaves no decoder or encoder and no
\* reference behind; dropping a sentinel-bound handle releases nothing; and a
\* call that gives a sentinel-bound handle elements or capacity rebinds it to
\* a fresh allocation, so that every other sentinel-bound handle stays on the
\* sentinel and reads as empty.
C22_SentinelKept ==
  [][/\ \A h \in Handles :
          Called("new", h)'
            => /\ hs'[h] = 0 /\ Contents(h)' = <<>> /\ Capacity(h)' = 0
               /\ \A i \in ImplIds : heap'[i] = Free
     /\ (last'.op \in {"create_decoder", "create_encoder"} /\ last'.ret = "None")
          => coder' = NoCoder /\ elems' = elems
     /\ \A h \in Handles :
          (Called("drop", h)' /\ hs[h] = 0 /\ Drop(h))
            => heap' = heap /\ elems' = elems
     /\ \A h \in Handles : \A g \in Handles \ {h} :
          (last'.op \in BindingOps /\ last'.h = h /\ hs[h] = 0 /\ Live(h)')
            => /\ (Length(h)' > 0 \/ Capacity(h)' > 0)
                    => hs'[h] > 0 /\ heap'[hs'[h]].rc = 1
               /\ hs[g] = 0
                    => hs'[g] = 0 /\ Contents(g)' = <<>> /\ Capacity(g)' = 0]_vars

\* a push through one of two sentinel-bound handles has rebound that handle,
\* and the other one is still on the sentinel
C22_Witness ==
  /\ last.op = "push" /\ last.h = "b" /\ last.moved
  /\ hs["a"] = 0 /\ hs["b"] > 0 /\ Length("b") = 1 /\ Length("a") = 0


\* the array of h is the only handle of its allocation, or on the sentinel
Unshared(h) == hs[h] = 0 \/ heap[hs[h]].rc = 1

\* the count of e has moved by d, and no other count has moved
CountMoved(e, d) ==
  \A x \in ElemImpls : elems'[x] = elems[x] + (IF x = e THEN d ELSE 0)

\* C23: in an array of nested handles every call moves the count of an
\* element allocation by the number of slots that came to name it less the
\* number that ceased to, so the count stays one (the outside handle) more
\* than the slots naming it.  On an unshared array a push or insert of a
\* handle adds one reference to its allocation, a remove takes one from the
\* removed element's, and a drop of the array takes one per slot.
C23_SlotReferences ==
  [][IsVar =>
       /\ \A e \in ElemImpls :
            /\ elems'[e] - elems[e] = SlotCount(e)' - SlotCount(e)
            /\ elems'[e] = 1 + SlotCount(e)'
       /\ \A h \in Handles, item \in ElemImpls, index \in Indices :
            /\ (Called("push", h)' /\ last'.ret = "Unit" /\ Unshared(h)
                  /\ \E oom \in BOOLEAN : PushOf(h, item, oom))
                 => CountMoved(item, 1)
            /\ (Called("insert", h)' /\ last'.ret = "Unit" /\ Unshared(h)
                  /\ index <= Length(h)
                  /\ \E oom \in BOOLEAN : InsertAt(h, index, item, oom))
                 => CountMoved(item, 1)
            /\ (Called("remove", h)' /\ last'.ret = "Ok" /\ Unshared(h)
                  /\ index < Length(h) /\ RemoveAt(h, index))
                 => CountMoved(Contents(h)[index + 1], 0 - 1)
       /\ \A h \in Handles :
            (Called("drop", h)' /\ Unshared(h) /\ Drop(h))
              => \A e \in ElemImpls : elems'[e] = elems[e] - Count(Contents(h), e)]_vars

\* a replace has overwritten the one slot of an array of images: the new
\* element has the slot's reference and the old one has lost it
C23_Witness ==
  /\ last.op = "replace" /\ last.ret = "Unit" /\ ty = "Image"
  /\ Length("a") = 1 /\ Contents("a")[1] = "E2"
  /\ elems["E1"] = 1 /\ elems["E2"] = 2


\* the elements s with the one at index replaced by item
Written(s, index, item) == [s EXCEPT ![index + 1] = item]

\* C24: the mutable slice of an array whose allocation has one reference is
\* a slice of that allocation: the handle is not rebound and nothing is
\* copied.  When a second handle holds the allocation, the handle is rebound
\* to a fresh allocation of count 1 with the same elements, and the old
\* allocation is left with one reference less and the elements it had.
C24_MakeMutable ==
  [][\A h \in Handles, index \in Indices, item \in Items(ty) :
       (Called("deref_mut", h)' /\ last'.ret = "Unit" /\ hs[h] > 0
          /\ \E oom \in BOOLEAN : WriteMutAt(h, index, item, oom))
         => LET m == Array_deref_mut(World, hs[h], FALSE)
                k == heap[hs[h]].rc
            IN  /\ Array_deref(m.w, m.id) = Contents(h)
                /\ Contents(h)' = Written(Contents(h), index, item)
                /\ heap'[hs'[h]].rc = 1
                /\ k = 1 => /\ ~last'.moved
                            /\ m.id = hs[h] /\ m.ptr = hs[h] /\ m.w = World
                /\ k > 1 => /\ last'.moved
                            /\ m.id # hs[h] /\ m.ptr = m.id
                            /\ m.w.heap[m.id].rc = 1
                            /\ m.w.heap[hs[h]] = [heap[hs[h]] EXCEPT !.rc = k - 1]
                            /\ \A g \in Handles \ {h} :
                                 hs[g] = hs[h]
                                   => /\ Contents(g)' = Contents(g)
                                      /\ heap'[hs'[g]].rc = k - 1
                                      /\ hs'[g] # hs'[h]]_vars

\* a write through the mutable slice of an unshared array has kept its handle
\* on the allocation
C24_Witness ==
  /\ last.op = "deref_mut" /\ last.ret = "Unit" /\ ~last.moved
  /\ hs[last.h] > 0 /\ heap[hs[last.h]].rc = 1 /\ Length(last.h) = MaxLen

\* C25: when the copy that detaches a shared array fails for want of memory,
\* the engine leaves the handle on the shared allocation, whose count and
\* elements are what they were, and no mutable slice is made: deref_mut
\* panics.
C25_DetachFailure ==
  [][\A h \in Handles, index \in Indices, item \in Items(ty) :
       (Called("deref_mut", h)' /\ hs[h] > 0 /\ heap[hs[h]].rc > 1
          /\ WriteMutAt(h, index, item, TRUE))
         => LET m == Array_deref_mut(World, hs[h], TRUE)
            IN  /\ m.id = hs[h] /\ m.w = World
                /\ m.ret = "Panic" /\ last'.ret = "Panic"]_vars

\* a deref_mut of a shared array has panicked on the failed copy
C25_Witness ==
  /\ last.op = "deref_mut" /\ last.ret = "Panic"
  /\ \A h \in Handles : ~Live(h)


\* the kind of element a shape tag names
TagKind(tag) ==
  CASE tag \in {"ArrayI8", "ArrayI16", "ArrayI32", "ArrayI64"} -> "signed"
    [] tag \in {"ArrayU8", "ArrayU16", "ArrayU32", "ArrayU64"} -> "unsigned"
    [] tag \in {"ArrayF32", "ArrayF64"} -> "float"
    [] tag = "ArrayVar" -> "handle"
    [] OTHER -> "struct"

\* the kind of T; a raw pointer is stored as the usize of its address
KindOf(T) ==
  CASE T \in SignedTypes -> "signed"
    [] T \in UnsignedTypes \cup PointerTypes -> "unsigned"
    [] T \in FloatTypes -> "float"
    [] T \in HandleTypes -> "handle"
    [] OTHER -> "struct"

\* C26: the shape tag of Array<T> names a shape whose element width and kind
\* are those of T, and no type of another width has the same tag.
C26_TagIsLayout ==
  /\ ItemSize(IMPL_IDX(ty)) = SizeOf(ty)
  /\ TagKind(IMPL_IDX(ty)) = KindOf(ty)
  /\ \A U \in Types : IMPL_IDX(U) = IMPL_IDX(ty) => SizeOf(U) = SizeOf(ty)


=============================================================================
